---- MODULE Spec2Model ----
(***************************************************************************)
(* A model of the extensible-storage layer: type resolution and field      *)
(* declaration (field.py), the schema builder adapter (schema_builder.py,  *)
(* field_builder.py), the schema binding of a schema class (schema.py),    *)
(* and the entity scope with forward migration (__init__.py, entity.py).   *)
(* The host (schema registry, builder, element storage) is modelled by the *)
(* calls the code makes on it.                                             *)
(***************************************************************************)
EXTENDS Integers, Sequences, FiniteSets, TLC

VARIABLES
    fdArgs,       \* arguments of the last FieldDescriptor(...) call
    fdResult,     \* the descriptor it produced, or the error it raised
    classes,      \* class name -> the attributes the class body declares
    declared,     \* classes whose body has run (SchemaMeta.__new__ returned)
    cache,        \* class name -> cls._schema (a schema GUID, or None)
    registry,     \* host: GUID -> registered schema, or Unregistered
    buildCalls,   \* class name -> number of build_schema(cls) calls
    finishCalls,  \* class name -> number of SchemaBuilder.Finish() calls
    persisted,    \* host: GUID -> entity stored on the element, or InvalidEntity
    scope,        \* position of the BaseSchema scope: none / init / entered
    wrapped,      \* self._wrapped, the in-memory entity of the scope
    update,       \* self.update
    nSets,        \* get/set/clear calls made on the entity in the scope
    nScopes,      \* scopes opened so far
    nAccess,      \* schema handle accesses made so far
    calls,        \* host calls made by the last operation, in order
    transfers,    \* the transfer_field_data calls of the last __enter__
    lastOp,       \* the last operation, its inputs and how it ended
    io,           \* the last get/set/clear of the scope: field, argument, result
    threads,      \* thread -> its position in SchemaMeta.schema and result
    access,       \* host: the access it grants, and the queries it answered
    ended         \* the scopes that have ended, in order, and what they left

vars == <<fdArgs, fdResult, classes, declared, cache, registry, buildCalls,
          finishCalls, persisted, scope, wrapped, update, nSets, nScopes,
          nAccess, calls, transfers, lastOp, io,
          threads, access, ended>>

None == "None"

Range(s) == {s[i] : i \in DOMAIN s}

(***************************************************************************)
(* field.py: the type vocabulary                                           *)
(***************************************************************************)

\* Short name -> host type token, ALLOWED_VALUE_TYPES.
ALLOWED_VALUE_TYPES ==
    [int32 |-> "Int32", int16 |-> "Int16", byte |-> "Byte",
     double |-> "Double", single |-> "Single", boolean |-> "Boolean",
     string |-> "String", guid |-> "Guid", element_id |-> "ElementId",
     xyz |-> "XYZ", uv |-> "UV", entity |-> "Entity"]

\* Short name -> host type token, ALLOWED_KEY_TYPES.
ALLOWED_KEY_TYPES ==
    [int32 |-> "Int32", int16 |-> "Int16", byte |-> "Byte",
     boolean |-> "Boolean", string |-> "String", guid |-> "Guid",
     element_id |-> "ElementId"]

\* The native primitive types int, float, bool, str.
PyInt == "py_int"
PyFloat == "py_float"
PyBool == "py_bool"
PyStr == "py_str"

Values(allowed) == {allowed[k] : k \in DOMAIN allowed}

\* resolve_type: the token, or "ValueError".
resolve_type(data_type, allowed_types) ==
    IF data_type \in Values(allowed_types) THEN data_type
    ELSE IF data_type = PyInt THEN "Int32"
    ELSE IF data_type = PyFloat THEN "Double"
    ELSE IF data_type = PyBool THEN "Boolean"
    ELSE IF data_type = PyStr THEN "String"
    ELSE IF data_type \in DOMAIN allowed_types THEN allowed_types[data_type]
    ELSE "ValueError"

\* ES.ContainerType
ContainerTypes == {"Simple", "Array", "Map"}

\* DB.ForgeTypeId instances usable as a spec type id.
ForgeTypeIds == {"Number", "Length"}

\* Python truthiness of a sub_schema_guid argument.
Falsy(x) == x \in {None, ""}

NoDescriptor ==
    [err |-> "ValueError", name |-> None, container_type |-> None,
     value_type |-> None, key_type |-> None, spec_type_id |-> None,
     sub_schema_guid |-> None]

\* FieldDescriptor.__init__: the descriptor, or NoDescriptor when it raises.
FieldDescriptor(name, container_type, value_type, key_type, spec_type_id, sub_schema_guid) ==
    LET vt == resolve_type(value_type, ALLOWED_VALUE_TYPES)
        kt == IF container_type = "Map" /\ key_type # None
              THEN resolve_type(key_type, ALLOWED_KEY_TYPES)
              ELSE key_type
    IN  IF container_type \notin ContainerTypes THEN NoDescriptor
        ELSE IF vt = "ValueError" THEN NoDescriptor
        ELSE IF container_type = "Map" /\ key_type = None THEN NoDescriptor
        ELSE IF kt = "ValueError" THEN NoDescriptor
        ELSE IF spec_type_id # None /\ spec_type_id \notin ForgeTypeIds
             THEN NoDescriptor
        ELSE IF value_type = "Entity" /\ Falsy(sub_schema_guid)
             THEN NoDescriptor
        ELSE [err |-> "none", name |-> name,
              container_type |-> container_type, value_type |-> vt,
              key_type |-> kt, spec_type_id |-> spec_type_id,
              sub_schema_guid |-> sub_schema_guid]

\* schema_field(container_type, value_type, key_type, spec_type_id=, guid=)
\* applied to the function named `name`.
schema_field(name, container_type, value_type, key_type, spec_type_id, guid) ==
    FieldDescriptor(name, container_type, value_type, key_type, spec_type_id,
                    guid)

simple_field(name, value_type, spec_type_id, guid) ==
    schema_field(name, "Simple", value_type, None, spec_type_id, guid)

array_field(name, value_type, spec_type_id, guid) ==
    schema_field(name, "Array", value_type, None, spec_type_id, guid)

map_field(name, key_type, value_type, spec_type_id, guid) ==
    schema_field(name, "Map", value_type, key_type, spec_type_id, guid)

(***************************************************************************)
(* The host: GUIDs, names, access levels, the schema registry              *)
(***************************************************************************)

EmptyGuid == "G_empty"
Guids == {"G0", "G1", "G2", "G3", "G4", "G5"}

\* SchemaBuilder.GUIDIsValid
GUIDIsValid(guid) == guid \in Guids

\* SchemaBuilder.AcceptableName, for schema and field names
AcceptableName(name) == name \notin {"Bad Name", "bad-field"}

\* isinstance(x, ES.AccessLevel)
AccessLevels == {"Public", "Vendor", "Application"}

\* SchemaBuilder.VendorIdIsValid
VendorIdIsValid(vendor_id) == vendor_id \in {"ACME"}

\* FieldBuilder.NeedsUnits: the floating-point value types carry units.
NeedsUnits(value_type) == value_type \in {"Double", "Single", "XYZ", "UV"}

\* FieldBuilder.NeedsSubSchemaGUID
NeedsSubSchemaGUID(value_type) == value_type = "Entity"

Unregistered == [registered |-> FALSE, name |-> None, fields |-> {}]

\* A field of a finished schema, as the host reports it.
HostField(name, container, vtype, ktype, spec, sub) ==
    [FieldName |-> name, ContainerType |-> container, ValueType |-> vtype,
     KeyType |-> ktype, SpecTypeId |-> spec, SubSchemaGUID |-> sub]

\* ES.Schema.Lookup(guid): the schema handle (its GUID), or None.
Lookup(guid) ==
    IF guid \in DOMAIN registry /\ registry[guid].registered THEN guid ELSE None

\* ES.Schema.ListSchemas(): the registered GUIDs.
ListSchemas == {g \in DOMAIN registry : registry[g].registered}

(***************************************************************************)
(* schema_builder.py: initialize_schema                                    *)
(***************************************************************************)

\* A builder under construction: the error raised so far, the host calls
\* made, the fields added, and whether a field name was added twice.
NewBuilder ==
    [err |-> "none", calls |-> <<>>, fields |-> {}, added |-> <<>>,
     dup |-> FALSE]

Raise(b, e) == IF b.err = "none" THEN [b EXCEPT !.err = e] ELSE b

Call(b, c) ==
    IF b.err = "none" THEN [b EXCEPT !.calls = Append(@, c)] ELSE b

_create_schema_builder(b, guid) ==
    IF ~GUIDIsValid(guid) THEN Raise(b, "Invalid schema GUID")
    ELSE Call(b, <<"SchemaBuilder", guid>>)

_set_schema_name(b, schema_name) ==
    IF ~AcceptableName(schema_name) THEN Raise(b, "Invalid schema name")
    ELSE Call(b, <<"SetSchemaName", schema_name>>)

_set_schema_documentation(b, documentation) ==
    Call(b, <<"SetDocumentation", documentation>>)

_set_access_levels(b, read_access, write_access) ==
    IF read_access \notin AccessLevels
    THEN Raise(b, "Invalid read access level")
    ELSE LET b1 == Call(b, <<"SetReadAccessLevel", read_access>>)
         IN  IF write_access \notin AccessLevels
             THEN Raise(b1, "Invalid write access level")
             ELSE Call(b1, <<"SetWriteAccessLevel", write_access>>)

_set_optional_properties(b, vendor_id, app_guid) ==
    LET b1 == IF vendor_id = None THEN b
              ELSE IF ~VendorIdIsValid(vendor_id)
                   THEN Raise(b, "Invalid Vendor ID")
                   ELSE Call(b, <<"SetVendorId", vendor_id>>)
    IN  IF app_guid = None THEN b1
        ELSE IF ~GUIDIsValid(app_guid)
             THEN Raise(b1, "Invalid Application GUID")
             ELSE Call(b1, <<"SetApplicationGuid", app_guid>>)

initialize_schema(guid, schema_name, documentation, read_access, write_access, vendor_id, app_guid) ==
    LET b1 == _create_schema_builder(NewBuilder, guid)
        b2 == _set_schema_name(b1, schema_name)
        b3 == _set_schema_documentation(b2, documentation)
        b4 == _set_access_levels(b3, read_access, write_access)
    IN  _set_optional_properties(b4, vendor_id, app_guid)

(***************************************************************************)
(* field_builder.py: add_field                                             *)
(***************************************************************************)

\* _add_field: the container-specific add-operation.  The host rejects a
\* field name it was already given; dupAtAdd says whether it does so in the
\* add-operation or only when the builder is finished.
_add_field(b, fd, dupAtAdd) ==
    LET op == CASE fd.container_type = "Simple" ->
                     <<"AddSimpleField", fd.name, fd.value_type>>
                [] fd.container_type = "Array" ->
                     <<"AddArrayField", fd.name, fd.value_type>>
                [] fd.container_type = "Map" ->
                     <<"AddMapField", fd.name, fd.key_type, fd.value_type>>
        b1 == Call(b, op)
        repeated == fd.name \in Range(b.added)
    IN  IF fd.container_type \notin ContainerTypes
        THEN Raise(b, "Invalid container type")
        ELSE IF repeated /\ dupAtAdd
        THEN Raise(b1, "Host: field name already in use")
        ELSE [b1 EXCEPT !.added = Append(@, fd.name),
                        !.dup = @ \/ repeated]

set_field_documentation(b, fd) ==
    Call(b, <<"Field.SetDocumentation", fd.name>>)

\* set_field_spec_type_id that does not ask the host whether the field
\* needs units.
set_field_spec_type_id_Unasked(b, fd) ==
    Call(b, <<"SetSpec", fd.name,
              IF fd.spec_type_id = None THEN "Number" ELSE fd.spec_type_id>>)

set_field_spec_type_id(b, fd) ==
    IF NeedsUnits(fd.value_type)
    THEN Call(b, <<"SetSpec", fd.name,
                   IF fd.spec_type_id = None THEN "Number"
                   ELSE fd.spec_type_id>>)
    ELSE b

set_sub_schema_guid(b, fd) ==
    IF NeedsSubSchemaGUID(fd.value_type)
    THEN Call(b, <<"SetSubSchemaGUID", fd.name, fd.sub_schema_guid>>)
    ELSE b

\* The field the finished schema will hold for descriptor fd.
BuiltField(fd) ==
    HostField(fd.name, fd.container_type, fd.value_type,
              IF fd.container_type = "Map" THEN fd.key_type ELSE None,
              IF NeedsUnits(fd.value_type)
              THEN (IF fd.spec_type_id = None THEN "Number"
                    ELSE fd.spec_type_id)
              ELSE None,
              IF NeedsSubSchemaGUID(fd.value_type) THEN fd.sub_schema_guid
              ELSE None)

add_field(b, fd, dupAtAdd) ==
    IF b.err # "none" THEN b
    ELSE IF ~AcceptableName(fd.name) THEN Raise(b, "Invalid field name")
    ELSE LET b1 == _add_field(b, fd, dupAtAdd)
             b2 == set_field_documentation(b1, fd)
             b3 == set_field_spec_type_id(b2, fd)
             b4 == set_sub_schema_guid(b3, fd)
         IN  IF b4.err = "none"
             THEN [b4 EXCEPT !.fields = @ \cup {BuiltField(fd)}]
             ELSE b4

(***************************************************************************)
(* schema.py: the schema classes, build_schema and SchemaMeta              *)
(***************************************************************************)

\* The attributes a class body leaves in the class: guid, the class name
\* (schema_name), the base schema classes in resolution order, the
\* FieldDescriptors of its own __dict__, and the BaseSchema attributes.
ClassAttrs(guid, name, bases, fields) ==
    [guid |-> guid, schema_name |-> name, doc |-> "doc", bases |-> bases,
     fields |-> fields, read_access_level |-> "Public",
     write_access_level |-> "Public", vendor_id |-> None,
     application_guid |-> None]

BaseClass ==
    ClassAttrs("G5", "Base", <<>>,
               {simple_field("a", "int32", None, None),
                simple_field("h", "double", None, None)})

\* class Derived(Base): declares `a` again, with another type.
DerivedClass ==
    ClassAttrs("G4", "Derived", <<"Base">>,
               {simple_field("a", "string", None, None),
                simple_field("n", "Entity", None, "G3")})

MetadataClass ==
    ClassAttrs("G1", "Metadata", <<>>,
               {simple_field("a", "int32", None, None),
                simple_field("b", "int32", None, None),
                simple_field("d", "double", "Length", None),
                array_field("e", "int32", None, None),
                simple_field("g", "int32", None, None),
                map_field("m", "string", "int32", None, None)})

\* The ways the declaration of Base is written in a program.
BaseVariants ==
    {BaseClass,
     [BaseClass EXCEPT !.guid = None],
     [BaseClass EXCEPT !.guid = EmptyGuid],
     [BaseClass EXCEPT !.schema_name = "Bad Name"],
     [BaseClass EXCEPT !.read_access_level = "0"],
     [BaseClass EXCEPT !.write_access_level = "0"],
     [BaseClass EXCEPT !.vendor_id = "ACME"],
     [BaseClass EXCEPT !.vendor_id = "?"],
     [BaseClass EXCEPT !.application_guid = "G0"],
     [BaseClass EXCEPT !.application_guid = EmptyGuid],
     [BaseClass EXCEPT !.fields =
         {simple_field("a", "int32", None, None),
          simple_field("bad-field", "double", None, None)}],
     [BaseClass EXCEPT !.fields =
         {simple_field("a", "int32", None, None),
          simple_field("h", "double", "Length", None)}]}

\* cls.mro(), restricted to the classes that can hold FieldDescriptors.
mro(cls) == <<cls>> \o classes[cls].bases

\* The orders in which a set can be enumerated.
Perms(S) ==
    {s \in [1..Cardinality(S) -> S] :
        \A i, j \in DOMAIN s : i # j => s[i] # s[j]}

\* The orders in which the loops of build_schema can meet the descriptors:
\* class by class along the mro, each class's __dict__ in any order.
RECURSIVE DictOrders(_)
DictOrders(ms) ==
    IF ms = <<>> THEN {<<>>}
    ELSE {p \o rest : p \in Perms(classes[Head(ms)].fields),
                      rest \in DictOrders(Tail(ms))}

RECURSIVE AddFields(_, _, _)
AddFields(b, order, dupAtAdd) ==
    IF order = <<>> THEN b
    ELSE AddFields(add_field(b, Head(order), dupAtAdd), Tail(order), dupAtAdd)

\* SchemaBuilder.Finish(): rejects a GUID that is already registered
\* (finishDupRaises) or hands back the registered schema; rejects a builder
\* that holds a repeated field name; otherwise registers the schema.
Finish(b, guid, name, finishDupRaises) ==
    LET b1 == Call(b, <<"Finish">>)
        out == [err |-> b1.err, calls |-> b1.calls, finished |-> TRUE,
                schema |-> Unregistered, ret |-> None]
    IN
    IF Lookup(guid) # None
    THEN IF finishDupRaises
         THEN [out EXCEPT !.err = "Host: schema GUID already registered"]
         ELSE [out EXCEPT !.ret = guid]
    ELSE IF b.dup
    THEN [out EXCEPT !.err = "Host: schema holds a repeated field name"]
    ELSE [out EXCEPT !.ret = guid,
                     !.schema = [registered |-> TRUE, name |-> name,
                                 fields |-> b.fields]]

build_schema(cls, order, dupAtAdd, finishDupRaises) ==
    LET c == classes[cls]
        b0 == initialize_schema(c.guid, c.schema_name, c.doc,
                                c.read_access_level, c.write_access_level,
                                c.vendor_id, c.application_guid)
        b1 == AddFields(b0, order, dupAtAdd)
    IN  IF b1.err # "none"
        THEN [err |-> b1.err, calls |-> b1.calls, finished |-> FALSE,
              schema |-> Unregistered, ret |-> None]
        ELSE Finish(b1, c.guid, c.schema_name, finishDupRaises)

\* What the last operation was: its name, the class it was made on, the
\* error it raised ("none" when it returned), what it returned, whether it
\* ran build_schema, and the exc_type handed to __exit__.
Op(op, cls, err, ret, built, exc) ==
    [op |-> op, cls |-> cls, err |-> err, ret |-> ret, built |-> built,
     exc |-> exc]

NoOp == Op("none", None, "none", None, FALSE, FALSE)

\* No get, set or clear made yet.
NoCall == [field |-> None, value |-> None, ret |-> None]

\* SchemaMeta.schema without the test of cls._schema: every access builds.
SchemaMeta_schema_NoCache(cls, order, dupAtAdd, finishDupRaises) ==
    LET r == build_schema(cls, order, dupAtAdd, finishDupRaises)
    IN  [err |-> r.err, calls |-> r.calls, finished |-> r.finished,
         schema |-> r.schema, ret |-> r.ret, built |-> TRUE]

\* SchemaMeta.schema: the bound handle, or the outcome of build_schema.
SchemaMeta_schema(cls, order, dupAtAdd, finishDupRaises) ==
    IF cache[cls] # None
    THEN [err |-> "none", calls |-> <<>>, finished |-> FALSE,
          schema |-> Unregistered, ret |-> cache[cls], built |-> FALSE]
    ELSE LET r == build_schema(cls, order, dupAtAdd, finishDupRaises)
         IN  [err |-> r.err, calls |-> r.calls, finished |-> r.finished,
              schema |-> r.schema, ret |-> r.ret, built |-> TRUE]

\* The effect of one evaluation a of cls.schema on the class and the host.
Bind(cls, a) ==
    /\ cache' = IF a.built /\ a.err = "none"
                THEN [cache EXCEPT ![cls] = a.ret] ELSE cache
    /\ registry' = IF a.schema.registered
                   THEN [registry EXCEPT ![classes[cls].guid] = a.schema]
                   ELSE registry
    /\ buildCalls' = IF a.built
                     THEN [buildCalls EXCEPT ![cls] = @ + 1] ELSE buildCalls
    /\ finishCalls' = IF a.finished
                      THEN [finishCalls EXCEPT ![cls] = @ + 1]
                      ELSE finishCalls

(***************************************************************************)
(* The host: schemas carried by documents, entities, typed Get and Set     *)
(***************************************************************************)

\* The schema a finished build of class attributes c registers.
SchemaOf(c, fields) ==
    [registered |-> TRUE, name |-> c.schema_name,
     fields |-> {BuiltField(fd) : fd \in fields}]

\* The schemas that documents carry: two older versions of "Metadata", the
\* current one, an unrelated schema, and those of Base and Derived.
ExternalSchema(guid) ==
    CASE guid = "G0" ->
           [registered |-> TRUE, name |-> "Metadata",
            fields |-> {HostField("a", "Simple", "Int32", None, None, None),
                        HostField("b", "Simple", "String", None, None, None),
                        HostField("c", "Simple", "Double", None, "Number", None),
                        HostField("e", "Array", "Int32", None, None, None),
                        HostField("m", "Map", "Int32", "String", None, None)}]
      [] guid = "G2" ->
           [registered |-> TRUE, name |-> "Metadata",
            fields |-> {HostField("a", "Simple", "Int32", None, None, None),
                        HostField("e", "Simple", "Int32", None, None, None),
                        HostField("g", "Array", "Int32", None, None, None)}]
      [] guid = "G3" ->
           [registered |-> TRUE, name |-> "Other",
            fields |-> {HostField("a", "Simple", "Int32", None, None, None)}]
      [] guid = "G1" -> SchemaOf(MetadataClass, MetadataClass.fields)
      [] guid = "G5" -> SchemaOf(BaseClass, BaseClass.fields)
      [] guid = "G4" ->
           SchemaOf(DerivedClass,
                    DerivedClass.fields
                        \cup {simple_field("h", "double", None, None)})

\* Field names in the order ListFields() reports them (sorted by name).
FieldOrder == <<"a", "b", "c", "d", "e", "g", "h", "m", "n">>

HasField(schema, name) == \E f \in schema.fields : f.FieldName = name

\* Schema.GetField(name), for a name the schema has.
GetField(schema, name) == CHOOSE f \in schema.fields : f.FieldName = name

\* Schema.ListFields(): the field names, sorted.
ListFields(schema) == SelectSeq(FieldOrder, LAMBDA n : HasField(schema, n))

IList(value_type) == "IList[" \o value_type \o "]"
IDictionary(key_type, value_type) ==
    "IDictionary[" \o key_type \o "," \o value_type \o "]"

\* determine_field_type (framework.get_type of a host type is that type).
determine_field_type(field) ==
    CASE field.ContainerType = "Simple" -> field.ValueType
      [] field.ContainerType = "Array" -> IList(field.ValueType)
      [] field.ContainerType = "Map" ->
             IDictionary(field.KeyType, field.ValueType)

\* DB.UnitUtils.GetValidUnits(spec), as far as its first element matters.
GetValidUnits(spec) ==
    IF spec = "Length" THEN <<"Feet", "Meters">> ELSE <<>>

\* get_default_unit_type_id
get_default_unit_type_id(field) ==
    IF field.SpecTypeId = "Number" THEN "General"
    ELSE IF GetValidUnits(field.SpecTypeId) # <<>>
         THEN GetValidUnits(field.SpecTypeId)[1]
    ELSE ""

\* Field.CompatibleUnit
CompatibleUnit(field, unit_type_id) ==
    CASE field.SpecTypeId = "Number" -> unit_type_id = "General"
      [] field.SpecTypeId = None -> unit_type_id = ""
      [] OTHER -> unit_type_id \in Range(GetValidUnits(field.SpecTypeId))

\* Default value of a field: zero, empty string, empty container.
EmptyMap == [k \in {} |-> 0]

DefaultValue(field) ==
    CASE field.ContainerType = "Array" -> <<>>
      [] field.ContainerType = "Map" -> EmptyMap
      [] field.ValueType = "String" -> ""
      [] OTHER -> 0

\* GetEntity(schema) of an element that holds none: an invalid entity.
InvalidEntity == [valid |-> FALSE, schema |-> None, vals |-> EmptyMap]

\* ES.Entity(schema): a fresh entity, every field at its default.
NewEntity(guid, schema) ==
    [valid |-> TRUE, schema |-> guid,
     vals |-> [n \in {f.FieldName : f \in schema.fields} |->
                 DefaultValue(GetField(schema, n))]]

\* Entity.IsValid() of a host that keeps an entity valid after its schema
\* was erased.
IsValid_SchemaNotChecked(entity) == entity.valid

\* Entity.IsValid(): the entity has a live schema corresponding to it.
IsValid(entity) == entity.valid /\ registry[entity.schema].registered

\* Entity.Get[T](fieldName, unit): the host refuses an invalid entity, a
\* requested type other than the field's own, and a unit the field's spec
\* does not admit.
Entity_Get(entity, T, fieldName, unit_type_id) ==
    LET field == GetField(registry[entity.schema], fieldName)
    IN  IF ~IsValid(entity)
        THEN [err |-> "Host: this Entity is invalid", value |-> 0]
        ELSE IF T # determine_field_type(field)
        THEN [err |-> "Host: requested type does not match the field",
              value |-> 0]
        ELSE IF ~CompatibleUnit(field, unit_type_id)
        THEN [err |-> "Host: unit not compatible with the field", value |-> 0]
        ELSE [err |-> "none", value |-> entity.vals[fieldName]]

\* Entity.Set(fieldName, value, unit) with a value of host type T.
Entity_Set(entity, T, fieldName, value, unit_type_id) ==
    LET field == GetField(registry[entity.schema], fieldName)
    IN  IF ~IsValid(entity)
        THEN [err |-> "Host: this Entity is invalid", entity |-> entity]
        ELSE IF T # determine_field_type(field)
        THEN [err |-> "Host: value type does not match the field",
              entity |-> entity]
        ELSE IF ~CompatibleUnit(field, unit_type_id)
        THEN [err |-> "Host: unit not compatible with the field",
              entity |-> entity]
        ELSE [err |-> "none",
              entity |-> [entity EXCEPT !.vals[fieldName] = value]]

\* Entity.Clear(fieldName): the host refuses an invalid entity and a name
\* that is not a field of the entity's schema.
Entity_Clear(entity, fieldName) ==
    IF ~IsValid(entity)
    THEN [err |-> "Host: this Entity is invalid", entity |-> entity]
    ELSE IF ~HasField(registry[entity.schema], fieldName)
    THEN [err |-> "Host: no field of this name in the schema",
          entity |-> entity]
    ELSE [err |-> "none",
          entity |-> [entity EXCEPT !.vals[fieldName] =
                        DefaultValue(GetField(registry[entity.schema],
                                              fieldName))]]

(***************************************************************************)
(* entity.py: Entity.get, Entity.set, Entity.clear;                        *)
(* field.py: convert_to_generic                                            *)
(***************************************************************************)

\* The Python values handed to set(): a scalar, a list or a dict, with the
\* types framework.get_type gives the first element (None when empty).
PyScalar(T, v) ==
    [kind |-> "scalar", key_type |-> None, value_type |-> T, val |-> v]
PyList(T, v) ==
    [kind |-> "list", key_type |-> None, value_type |-> T, val |-> v]
PyDict(K, T, v) ==
    [kind |-> "dict", key_type |-> K, value_type |-> T, val |-> v]

\* convert_to_generic: List[T] for a list, Dictionary[K, V] for a dict, T
\* being read off the first element; next(iter(...)) of an empty list or
\* dict raises StopIteration.  The generic containers are named by the
\* interface they implement.
convert_to_generic(value) ==
    CASE value.kind = "list" ->
           IF value.val = <<>>
           THEN [err |-> "StopIteration", type |-> None, val |-> value.val]
           ELSE [err |-> "none", type |-> IList(value.value_type),
                 val |-> value.val]
      [] value.kind = "dict" ->
           IF DOMAIN value.val = {}
           THEN [err |-> "StopIteration", type |-> None, val |-> value.val]
           ELSE [err |-> "none",
                 type |-> IDictionary(value.key_type, value.value_type),
                 val |-> value.val]
      [] OTHER -> [err |-> "none", type |-> value.value_type,
                   val |-> value.val]

\* The errors of dereferencing None: self.schema of an entity without a
\* live schema, and the field GetField returns for a name it does not have.
NoSchemaError == "AttributeError: 'NoneType' object has no attribute 'GetField'"
NoFieldError ==
    "AttributeError: 'NoneType' object has no attribute 'GetSpecTypeId'"

\* Entity.get(field) with a field name and no unit_type_id.  nullSchema
\* says whether the host reports no Schema for an entity that is not valid
\* or still hands out the schema it had.
Entity_get(entity, field, nullSchema) ==
    LET schema == registry[entity.schema]
        f == GetField(schema, field)
        got == Entity_Get(entity, determine_field_type(f), field,
                          get_default_unit_type_id(f))
    IN  IF ~IsValid(entity) /\ (nullSchema \/ ~entity.valid)
        THEN [err |-> NoSchemaError, value |-> None]
        ELSE IF ~HasField(schema, field)
        THEN [err |-> NoFieldError, value |-> None]
        ELSE IF got.err # "none" THEN [err |-> got.err, value |-> None]
        ELSE [err |-> "none", value |-> got.value]

\* Entity.set that takes a name the schema does not have for nothing to
\* do: it returns without an error.
Entity_set_IgnoresUnknown(entity, field, value, nullSchema) ==
    LET schema == registry[entity.schema]
        f == GetField(schema, field)
        data_type == determine_field_type(f)
        generic == convert_to_generic(value)
    IN  IF ~IsValid(entity) /\ (nullSchema \/ ~entity.valid)
        THEN [err |-> NoSchemaError, entity |-> entity]
        ELSE IF ~HasField(schema, field)
        THEN [err |-> "none", entity |-> entity]
        ELSE IF generic.err # "none"
        THEN [err |-> generic.err, entity |-> entity]
        ELSE IF generic.type # data_type
        THEN [err |-> "TypeError: Invalid type for field",
              entity |-> entity]
        ELSE Entity_Set(entity, data_type, field, generic.val,
                        get_default_unit_type_id(f))

\* Entity.set(field, value) with a field name and no unit_type_id.
Entity_set(entity, field, value, nullSchema) ==
    LET schema == registry[entity.schema]
        f == GetField(schema, field)
        data_type == determine_field_type(f)
        generic == convert_to_generic(value)
    IN  IF ~IsValid(entity) /\ (nullSchema \/ ~entity.valid)
        THEN [err |-> NoSchemaError, entity |-> entity]
        ELSE IF ~HasField(schema, field)
        THEN [err |-> NoFieldError, entity |-> entity]
        ELSE IF generic.err # "none"
        THEN [err |-> generic.err, entity |-> entity]
        ELSE IF generic.type # data_type
        THEN [err |-> "TypeError: Invalid type for field",
              entity |-> entity]
        ELSE Entity_Set(entity, data_type, field, generic.val,
                        get_default_unit_type_id(f))

\* Entity.clear(field) with a field name.
Entity_clear(entity, field) == Entity_Clear(entity, field)

(***************************************************************************)
(* entity.py: transfer_field_data; schema.py: list_similar_schemas;        *)
(* __init__.py: update_schema_entities                                     *)
(***************************************************************************)

\* One pass of the loop body of transfer_field_data for the field `name` of
\* the target schema; st is [err, entity], the target entity so far.
TransferField(st, from_entity, name) ==
    LET field == GetField(registry[st.entity.schema], name)
        old_schema == registry[from_entity.schema]
        old_field == GetField(old_schema, name)
        field_data_type == determine_field_type(field)
        unit_type_id == get_default_unit_type_id(field)
        got == Entity_Get(from_entity, field_data_type, name, unit_type_id)
        put == Entity_Set(st.entity, field_data_type, name, got.value,
                          unit_type_id)
    IN  IF st.err # "none" THEN st
        ELSE IF ~HasField(old_schema, name) THEN st
        ELSE IF field_data_type # old_field.ValueType THEN st
        ELSE IF got.err # "none" THEN [st EXCEPT !.err = got.err]
        ELSE [err |-> put.err, entity |-> put.entity]

RECURSIVE TransferFields(_, _, _)
TransferFields(st, from_entity, names) ==
    IF names = <<>> THEN st
    ELSE TransferFields(TransferField(st, from_entity, Head(names)),
                        from_entity, Tail(names))

\* transfer_field_data: [err, entity], the target entity as it is left.
transfer_field_data(from_entity, to_entity) ==
    TransferFields([err |-> "none", entity |-> to_entity], from_entity,
                   ListFields(registry[to_entity.schema]))

\* list_similar_schemas that selects by name only.
list_similar_schemas_NameOnly(guid) ==
    {s \in ListSchemas : registry[s].name = registry[guid].name}

\* list_similar_schemas: same name, another GUID.
list_similar_schemas(guid) ==
    {s \in ListSchemas : /\ registry[s].name = registry[guid].name
                         /\ s # guid}

\* MigrateOne with the deletion not gated on the transfer: the old entity
\* is deleted whether or not transfer_field_data raised.
MigrateOne_DeleteRegardless(st, s, remove_old) ==
    LET old_entity == st.persisted[s]
        t == transfer_field_data(old_entity, st.entity)
        st1 == [st EXCEPT !.calls = Append(@, <<"GetEntity", s>>)]
        st2 == [st1 EXCEPT
                  !.err = t.err, !.entity = t.entity,
                  !.transfers = Append(@, [from |-> old_entity,
                                           to |-> st.entity,
                                           result |-> t.entity,
                                           err |-> t.err])]
    IN  IF st.err # "none" THEN st
        ELSE IF ~old_entity.valid THEN st1
        ELSE IF remove_old
        THEN [st2 EXCEPT
                !.persisted[s] = InvalidEntity,
                !.calls = @ \o <<<<"Transaction.Start", "Delete Entity">>,
                                 <<"DeleteEntity", s>>,
                                 <<"Transaction.Commit">>>>]
        ELSE st2

\* One pass of the loop body of update_schema_entities for old schema s;
\* st is [err, entity, persisted, calls, transfers].
MigrateOne(st, s, remove_old) ==
    LET old_entity == st.persisted[s]
        t == transfer_field_data(old_entity, st.entity)
        st1 == [st EXCEPT !.calls = Append(@, <<"GetEntity", s>>)]
        st2 == [st1 EXCEPT
                  !.err = t.err, !.entity = t.entity,
                  !.transfers = Append(@, [from |-> old_entity,
                                           to |-> st.entity,
                                           result |-> t.entity,
                                           err |-> t.err])]
    IN  IF st.err # "none" THEN st
        ELSE IF ~old_entity.valid THEN st1
        ELSE IF t.err # "none" THEN st2
        ELSE IF remove_old
        THEN [st2 EXCEPT
                !.persisted[s] = InvalidEntity,
                !.calls = @ \o <<<<"Transaction.Start", "Delete Entity">>,
                                 <<"DeleteEntity", s>>,
                                 <<"Transaction.Commit">>>>]
        ELSE st2

RECURSIVE MigrateAll(_, _, _)
MigrateAll(st, order, remove_old) ==
    IF order = <<>> THEN st
    ELSE MigrateAll(MigrateOne(st, Head(order), remove_old), Tail(order),
                    remove_old)

\* update_schema_entities that stores the populated entity on the element
\* when the migration is done.
update_schema_entities_StoresEntity(entity, order, remove_old) ==
    LET r == MigrateAll([err |-> "none", entity |-> entity,
                         persisted |-> persisted, calls |-> <<>>,
                         transfers |-> <<>>], order, remove_old)
    IN  IF r.err # "none" THEN r
        ELSE [r EXCEPT !.persisted[entity.schema] = r.entity,
                       !.calls = Append(@, <<"SetEntity", entity.schema>>)]

\* update_schema_entities(element, entity, remove_old); `order` is the order
\* in which the host lists the similar schemas.
update_schema_entities(entity, order, remove_old) ==
    MigrateAll([err |-> "none", entity |-> entity, persisted |-> persisted,
                calls |-> <<>>, transfers |-> <<>>], order, remove_old)

(***************************************************************************)
(* Bounds                                                                  *)
(***************************************************************************)

MaxAccess == 3   \* schema handle accesses in a run
MaxScopes == 2   \* scopes opened in a run
MaxSets == 1     \* set() and clear() calls in one scope body
MaxCalls == 2    \* get/set/clear calls made on one entity

(***************************************************************************)
(* Field declaration (field.py)                                            *)
(***************************************************************************)

\* What a program can write as a value or key type.
TypeInputs ==
    Values(ALLOWED_VALUE_TYPES) \cup DOMAIN ALLOWED_VALUE_TYPES
        \cup {PyInt, PyFloat, PyBool, PyStr, "decimal"}

classVars == <<classes, declared, cache, registry, buildCalls, finishCalls,
               nAccess>>
scopeVars == <<persisted, scope, wrapped, update, nSets, nScopes, transfers>>
fieldVars == <<fdArgs, fdResult>>

\* The argument lists a program can write for a field declaration.
FieldArgs ==
    [container_type : ContainerTypes \cup {"List"},
     value_type : TypeInputs,
     key_type : TypeInputs \cup {None},
     spec_type_id : {None, "Length", "m"},
     guid : {None, "G3"}]

\* No declaration evaluated yet.
Pending == [NoDescriptor EXCEPT !.err = "pending"]

\* A field declaration: schema_field(...) applied to a function named "f",
\* with the arguments fdArgs.
DeclareField ==
    /\ fdResult = Pending
    /\ fdResult' = schema_field("f", fdArgs.container_type, fdArgs.value_type,
                                fdArgs.key_type, fdArgs.spec_type_id,
                                fdArgs.guid)
    /\ lastOp' = Op("field", None, fdResult'.err, None, FALSE, FALSE)
    /\ calls' = <<>>
    /\ UNCHANGED <<fdArgs, classVars, scopeVars, io, threads, access, ended>>

(***************************************************************************)
(* Schema binding (schema.py)                                              *)
(***************************************************************************)

\* SchemaMeta.__new__ for the class named cls: validates the guid and looks
\* the schema up in the host registry.
Declare(cls) ==
    /\ cls \in DOMAIN classes
    /\ cls \notin declared
    /\ Range(classes[cls].bases) \subseteq declared
    /\ IF classes[cls].guid = None
       THEN /\ lastOp' = Op("class", cls, "Schema must have a GUID value",
                            None, FALSE, FALSE)
            /\ calls' = <<>>
            /\ UNCHANGED <<declared, cache>>
       ELSE /\ declared' = declared \cup {cls}
            /\ cache' = [cache EXCEPT ![cls] = Lookup(classes[cls].guid)]
            /\ calls' = <<<<"Lookup", classes[cls].guid>>>>
            /\ lastOp' = Op("class", cls, "none", None, FALSE, FALSE)
    /\ UNCHANGED <<classes, registry, buildCalls, finishCalls, nAccess,
                   fieldVars, scopeVars, io, threads, access, ended>>

\* The outcomes of one evaluation of cls.schema: the bound handle, or a
\* build for each __dict__ order and each way the host treats a repeated
\* field name and an already registered GUID.
SchemaOutcomes(cls) ==
    IF cache[cls] # None
    THEN {SchemaMeta_schema(cls, <<>>, FALSE, FALSE)}
    ELSE {SchemaMeta_schema(cls, order, dupAtAdd, finishDupRaises) :
            order \in DictOrders(mro(cls)),
            dupAtAdd \in BOOLEAN, finishDupRaises \in BOOLEAN}

\* An access to cls.schema.
Access(cls) ==
    /\ cls \in declared
    /\ nAccess < MaxAccess
    /\ \E a \in SchemaOutcomes(cls) :
        /\ Bind(cls, a)
        /\ calls' = a.calls
        /\ lastOp' = Op("schema", cls, a.err, a.ret, a.built, FALSE)
    /\ nAccess' = nAccess + 1
    /\ UNCHANGED <<classes, declared, fieldVars, scopeVars, io, threads,
                   access, ended>>

\* The threads of the program that read a schema handle.
Threads == {"t1", "t2"}

\* A thread that has not yet evaluated cls.schema.
AtStart == [pc |-> "start", err |-> "none", ret |-> None]

\* The class whose handle the threads read.
ThreadClass == "Base"

\* SchemaMeta.schema in thread t, up to the test of cls._schema: the bound
\* handle is returned, or the thread goes on to build.
ThreadCheck(t) ==
    /\ ThreadClass \in declared
    /\ threads[t].pc = "start"
    /\ threads' = [threads EXCEPT ![t] =
                     IF cache[ThreadClass] # None
                     THEN [pc |-> "done", err |-> "none",
                           ret |-> cache[ThreadClass]]
                     ELSE [@ EXCEPT !.pc = "build"]]
    /\ lastOp' = Op("check", ThreadClass, "none", cache[ThreadClass], FALSE,
                    FALSE)
    /\ calls' = <<>>
    /\ UNCHANGED <<classVars, fieldVars, scopeVars, io, access, ended>>

\* SchemaMeta.schema in thread t, after the test: build_schema(cls) and the
\* assignment of its result to cls._schema.
ThreadBuild(t) ==
    /\ threads[t].pc = "build"
    /\ \E order \in DictOrders(mro(ThreadClass)),
          dupAtAdd \in BOOLEAN, finishDupRaises \in BOOLEAN :
         LET r == build_schema(ThreadClass, order, dupAtAdd, finishDupRaises)
             a == [err |-> r.err, calls |-> r.calls, finished |-> r.finished,
                   schema |-> r.schema, ret |-> r.ret, built |-> TRUE]
         IN  /\ Bind(ThreadClass, a)
             /\ threads' = [threads EXCEPT ![t] =
                              [pc |-> "done", err |-> a.err, ret |-> a.ret]]
             /\ calls' = a.calls
             /\ lastOp' = Op("schema", ThreadClass, a.err, a.ret, TRUE, FALSE)
    /\ UNCHANGED <<classes, declared, nAccess, fieldVars, scopeVars, io,
                   access, ended>>

\* The host registers a schema on its own: a document that carries it is
\* opened.
HostRegister(guid) ==
    /\ guid \in {classes[c].guid : c \in DOMAIN classes} \cap Guids
    /\ ~registry[guid].registered
    /\ registry' = [registry EXCEPT ![guid] = ExternalSchema(guid)]
    /\ lastOp' = Op("host", None, "none", guid, FALSE, FALSE)
    /\ calls' = <<>>
    /\ UNCHANGED <<classes, declared, cache, buildCalls, finishCalls, nAccess,
                   fieldVars, scopeVars, io, threads, access, ended>>

(***************************************************************************)
(* The scope of a BaseSchema instance on one element (__init__.py)         *)
(***************************************************************************)

\* The schema class used with the element.
ScopeClass == "Metadata"

\* The GUID of the schema class used with the element.
ScopeGuid == classes[ScopeClass].guid

\* The schema bound to handle guid once outcome a of cls.schema is applied.
SchemaAfter(guid, a) ==
    IF a.schema.registered THEN a.schema ELSE registry[guid]

\* BaseSchema.__init__ that wraps a fresh entity whatever the element holds.
New_FreshEntity(upd) ==
    /\ scope = "none"
    /\ ScopeClass \in declared
    /\ nScopes < MaxScopes
    /\ \E a \in SchemaOutcomes(ScopeClass) :
        /\ Bind(ScopeClass, a)
        /\ IF a.err # "none"
           THEN /\ calls' = a.calls
                /\ UNCHANGED <<scope, wrapped, update>>
           ELSE /\ calls' = Append(a.calls, <<"GetEntity", a.ret>>)
                /\ wrapped' = NewEntity(a.ret, SchemaAfter(a.ret, a))
                /\ update' = upd
                /\ scope' = "init"
        /\ lastOp' = Op("init", ScopeClass, a.err, a.ret, a.built, FALSE)
    /\ nScopes' = nScopes + 1
    /\ nSets' = 0
    /\ transfers' = <<>>
    /\ io' = NoCall
    /\ UNCHANGED <<classes, declared, nAccess, persisted, fieldVars, threads,
                   access, ended>>

\* BaseSchema.__init__(element, update): binds the schema, reads the
\* element's entity and replaces an invalid one by a fresh entity.
New(upd) ==
    /\ scope = "none"
    /\ ScopeClass \in declared
    /\ nScopes < MaxScopes
    /\ \E a \in SchemaOutcomes(ScopeClass) :
        /\ Bind(ScopeClass, a)
        /\ IF a.err # "none"
           THEN /\ calls' = a.calls
                /\ UNCHANGED <<scope, wrapped, update>>
           ELSE LET entity == persisted[a.ret]
                IN  /\ calls' = Append(a.calls, <<"GetEntity", a.ret>>)
                    /\ wrapped' = IF entity.valid THEN entity
                                  ELSE NewEntity(a.ret,
                                                 SchemaAfter(a.ret, a))
                    /\ update' = upd
                    /\ scope' = "init"
        /\ lastOp' = Op("init", ScopeClass, a.err, a.ret, a.built, FALSE)
    /\ nScopes' = nScopes + 1
    /\ nSets' = 0
    /\ transfers' = <<>>
    /\ io' = NoCall
    /\ UNCHANGED <<classes, declared, nAccess, persisted, fieldVars, threads,
                   access, ended>>

\* What a scope that ends leaves behind: how it was opened, whether its body
\* was reached and raised, the field calls of the body, the transfers of
\* its __enter__, and the entities the element holds when it ends.
ScopeEnd(entered, exc, copied, element) ==
    [update |-> update, entered |-> entered, exc |-> exc, sets |-> nSets,
     copied |-> copied, element |-> element]

\* BaseSchema.__enter__: migration, when self.update is set.  An error
\* leaves the with-statement before its body and without __exit__.
Enter ==
    /\ scope = "init"
    /\ IF update
       THEN \E order \in Perms(list_similar_schemas(wrapped.schema)) :
              LET r == update_schema_entities(wrapped, order, TRUE)
              IN  /\ persisted' = r.persisted
                  /\ wrapped' = r.entity
                  /\ calls' = r.calls
                  /\ transfers' = r.transfers
                  /\ scope' = IF r.err = "none" THEN "entered" ELSE "none"
                  /\ lastOp' = Op("enter", ScopeClass, r.err, None, FALSE,
                                  FALSE)
                  /\ ended' = IF r.err = "none" THEN ended
                              ELSE Append(ended,
                                          ScopeEnd(FALSE, FALSE,
                                                   Len(r.transfers),
                                                   r.persisted))
       ELSE /\ scope' = "entered"
            /\ calls' = <<>>
            /\ lastOp' = Op("enter", ScopeClass, "none", None, FALSE, FALSE)
            /\ UNCHANGED <<persisted, wrapped, transfers, ended>>
    /\ UNCHANGED <<classVars, update, nSets, nScopes, fieldVars, io, threads,
                   access>>

\* Values of a field's own type that the scope body stores in it.
SetValues(field) ==
    CASE field.ContainerType = "Array" ->
           {PyList(field.ValueType, <<3>>)}
      [] field.ContainerType = "Map" ->
           {PyDict(field.KeyType, field.ValueType, "k" :> 3)}
      [] field.ValueType = "String" -> {PyScalar("String", "y")}
      [] OTHER -> {PyScalar(field.ValueType, 1), PyScalar(field.ValueType, 3)}

\* Entity.get(name) on the entity of the scope.
BodyGet(name, nullSchema) ==
    /\ scope = "entered"
    /\ LET got == Entity_get(wrapped, name, nullSchema)
       IN  /\ io' = [field |-> name, value |-> None, ret |-> got.value]
           /\ lastOp' = Op("get", ScopeClass, got.err, None, FALSE, FALSE)
    /\ nSets' = nSets + 1
    /\ calls' = <<>>
    /\ UNCHANGED <<classVars, persisted, scope, wrapped, update, nScopes,
                   transfers, fieldVars, threads, access, ended>>

\* Entity.set on an entity that is the element's own and not a copy: the
\* value reaches the element at once.
BodySet_WriteThrough(name, value, nullSchema) ==
    /\ scope = "entered"
    /\ LET put == Entity_set(wrapped, name, value, nullSchema)
       IN  /\ wrapped' = put.entity
           /\ persisted' = [persisted EXCEPT ![wrapped.schema] = put.entity]
           /\ lastOp' = Op("set", ScopeClass, put.err, None, FALSE, FALSE)
    /\ io' = [field |-> name, value |-> value, ret |-> None]
    /\ nSets' = nSets + 1
    /\ calls' = <<>>
    /\ UNCHANGED <<classVars, scope, update, nScopes, transfers, fieldVars,
                   threads, access, ended>>

\* Entity.set(name, value) on the entity of the scope: changes the
\* in-memory entity only.
BodySet(name, value, nullSchema) ==
    /\ scope = "entered"
    /\ LET put == Entity_set(wrapped, name, value, nullSchema)
       IN  /\ wrapped' = put.entity
           /\ lastOp' = Op("set", ScopeClass, put.err, None, FALSE, FALSE)
    /\ io' = [field |-> name, value |-> value, ret |-> None]
    /\ nSets' = nSets + 1
    /\ calls' = <<>>
    /\ UNCHANGED <<classVars, persisted, scope, update, nScopes, transfers,
                   fieldVars, threads, access, ended>>

\* Entity.clear(name) on the entity of the scope.
BodyClear(name) ==
    /\ scope = "entered"
    /\ LET r == Entity_clear(wrapped, name)
       IN  /\ wrapped' = r.entity
           /\ lastOp' = Op("clear", ScopeClass, r.err, None, FALSE, FALSE)
    /\ io' = [field |-> name, value |-> None, ret |-> None]
    /\ nSets' = nSets + 1
    /\ calls' = <<>>
    /\ UNCHANGED <<classVars, persisted, scope, update, nScopes, transfers,
                   fieldVars, threads, access, ended>>

\* The host erases a schema and all its entities; handles and entities the
\* program holds stay as they are.
HostErase(guid) ==
    /\ registry[guid].registered
    /\ registry' = [registry EXCEPT ![guid].registered = FALSE]
    /\ persisted' = [persisted EXCEPT ![guid] = InvalidEntity]
    /\ lastOp' = Op("erase", None, "none", guid, FALSE, FALSE)
    /\ calls' = <<>>
    /\ UNCHANGED <<classes, declared, cache, buildCalls, finishCalls, nAccess,
                   scope, wrapped, update, nSets, nScopes, transfers,
                   fieldVars, io, threads, access, ended>>

\* The two access checks.
AccessKinds == {"read", "write"}

\* Schema.ReadAccessGranted() / WriteAccessGranted(), and the same of an
\* Entity: what the host grants the add-in at the time of the call.
AccessGranted(kind) == IF kind = "read" THEN access.read ELSE access.write

\* The host after it answered a query of `kind` made on `on`.
Query(kind, on) ==
    [access EXCEPT !.log = Append(@, [kind |-> kind, on |-> on,
                                      ret |-> AccessGranted(kind)])]

\* A class property that answers from an earlier answer once it has one.
ClassAccessGranted_Cached(kind) ==
    /\ ScopeClass \in declared
    /\ \E a \in SchemaOutcomes(ScopeClass) :
        /\ Bind(ScopeClass, a)
        /\ access' = IF a.err = "none" /\ access.log = <<>>
                     THEN Query(kind, "class") ELSE access
        /\ calls' = a.calls
        /\ lastOp' = Op(kind \o "_access_granted", ScopeClass, a.err, None,
                        a.built, FALSE)
    /\ nSets' = nSets + 1
    /\ UNCHANGED <<classes, declared, nAccess, persisted, scope, wrapped,
                   update, nScopes, transfers, fieldVars, io, threads, ended>>

\* SchemaMeta.read_access_granted / write_access_granted on the class of
\* the scope: cls.schema, then the query on the handle.
ClassAccessGranted(kind) ==
    /\ ScopeClass \in declared
    /\ \E a \in SchemaOutcomes(ScopeClass) :
        /\ Bind(ScopeClass, a)
        /\ access' = IF a.err = "none" THEN Query(kind, "class") ELSE access
        /\ calls' = a.calls
        /\ lastOp' = Op(kind \o "_access_granted", ScopeClass, a.err, None,
                        a.built, FALSE)
    /\ nSets' = nSets + 1
    /\ UNCHANGED <<classes, declared, nAccess, persisted, scope, wrapped,
                   update, nScopes, transfers, fieldVars, io, threads, ended>>

\* Entity.read_access_granted / write_access_granted on the entity of the
\* scope.
EntityAccessGranted(kind) ==
    /\ scope = "entered"
    /\ access' = Query(kind, "entity")
    /\ calls' = <<>>
    /\ lastOp' = Op(kind \o "_access_granted", None, "none", None, FALSE,
                    FALSE)
    /\ nSets' = nSets + 1
    /\ UNCHANGED <<classVars, persisted, scope, wrapped, update, nScopes,
                   transfers, fieldVars, io, threads, ended>>

\* The host comes to grant or refuse an access: another add-in is the
\* active one.
HostSetAccess(kind, granted) ==
    /\ AccessGranted(kind) # granted
    /\ access' = IF kind = "read" THEN [access EXCEPT !.read = granted]
                 ELSE [access EXCEPT !.write = granted]
    /\ calls' = <<>>
    /\ lastOp' = Op("host", None, "none", kind, FALSE, FALSE)
    /\ UNCHANGED <<classVars, scopeVars, fieldVars, io, threads, ended>>

\* BaseSchema.__exit__ that stores the entity without a transaction.
Exit_NoTransaction(exc) ==
    /\ scope = "entered"
    /\ persisted' = [persisted EXCEPT ![wrapped.schema] = wrapped]
    /\ calls' = <<<<"SetEntity", wrapped.schema>>>>
    /\ scope' = "none"
    /\ lastOp' = Op("exit", ScopeClass, "none", None, FALSE, exc)
    /\ ended' = Append(ended, ScopeEnd(TRUE, exc, Len(transfers), persisted'))
    /\ UNCHANGED <<classVars, wrapped, update, nSets, nScopes, transfers,
                   fieldVars, io, threads, access>>

\* BaseSchema.__exit__(exc_type, exc_val, exc_tb): exc tells whether the
\* scope body raised.
Exit(exc) ==
    /\ scope = "entered"
    /\ persisted' = [persisted EXCEPT ![wrapped.schema] = wrapped]
    /\ calls' = <<<<"Transaction.Start", "Update Entity">>,
                  <<"SetEntity", wrapped.schema>>,
                  <<"Transaction.Commit">>>>
    /\ scope' = "none"
    /\ lastOp' = Op("exit", ScopeClass, "none", None, FALSE, exc)
    /\ ended' = Append(ended, ScopeEnd(TRUE, exc, Len(transfers), persisted'))
    /\ UNCHANGED <<classVars, wrapped, update, nSets, nScopes, transfers,
                   fieldVars, io, threads, access>>

(***************************************************************************)
(* Initial states and specifications                                       *)
(***************************************************************************)

\* No field declaration under way.
NoField == [container_type |-> None, value_type |-> None, key_type |-> None,
            spec_type_id |-> None, guid |-> None]

\* An entity a document holds on the element under schema guid.
SampleEntity(guid) ==
    [valid |-> TRUE, schema |-> guid,
     vals |->
       CASE guid = "G0" -> ("a" :> 1) @@ ("b" :> "x") @@ ("c" :> 5)
                            @@ ("e" :> <<1>>) @@ ("m" :> ("k" :> 1))
         [] guid = "G2" -> ("a" :> 2) @@ ("e" :> 2) @@ ("g" :> <<2>>)
         [] guid = "G3" -> ("a" :> 1)
         [] guid = "G1" -> ("a" :> 4) @@ ("b" :> 4) @@ ("d" :> 4)
                            @@ ("e" :> <<4>>) @@ ("g" :> 4)
                            @@ ("m" :> ("j" :> 4))]

\* No BaseSchema instance made yet.
NoScope ==
    /\ scope = "none"
    /\ wrapped = InvalidEntity
    /\ nScopes = 0

InitCommon ==
    /\ buildCalls = [c \in DOMAIN classes |-> 0]
    /\ finishCalls = [c \in DOMAIN classes |-> 0]
    /\ update = FALSE
    /\ nSets = 0
    /\ nAccess = 0
    /\ calls = <<>>
    /\ transfers = <<>>
    /\ lastOp = NoOp
    /\ io = NoCall
    /\ threads = [t \in Threads |-> AtStart]
    /\ access = [read |-> TRUE, write |-> TRUE, log |-> <<>>]
    /\ ended = <<>>

\* Field declarations: no class, no host state.
InitField ==
    /\ fdArgs \in FieldArgs
    /\ fdResult = Pending
    /\ classes = [c \in {"Base"} |-> BaseClass]
    /\ declared = {}
    /\ cache = [c \in DOMAIN classes |-> None]
    /\ registry = [g \in Guids |-> Unregistered]
    /\ persisted = [g \in Guids |-> InvalidEntity]
    /\ InitCommon
    /\ NoScope

NextField == DeclareField

SpecField == InitField /\ [][NextField]_vars

\* Schema binding: a program that declares Base (written in one of the
\* ways of BaseVariants) and Derived, in a session whose documents may or
\* may not already carry their schemas.
InitRegistry ==
    /\ classes \in {[c \in {"Base", "Derived"} |->
                        IF c = "Base" THEN v ELSE DerivedClass] :
                    v \in BaseVariants}
    /\ declared = {}
    /\ cache = [c \in DOMAIN classes |-> None]
    /\ registry \in {[g \in Guids |-> IF g \in known THEN ExternalSchema(g)
                                      ELSE Unregistered] :
                     known \in SUBSET {"G4", "G5"}}
    /\ persisted = [g \in Guids |-> InvalidEntity]
    /\ fdArgs = NoField
    /\ fdResult = Pending
    /\ InitCommon
    /\ NoScope

NextRegistry ==
    \/ \E cls \in DOMAIN classes : Declare(cls)
    \/ \E cls \in DOMAIN classes : Access(cls)
    \/ \E guid \in Guids : HostRegister(guid)

SpecRegistry == InitRegistry /\ [][NextRegistry]_vars

\* Two threads: a program that declares Base (written in one of the ways
\* of BaseVariants) and then reads Base.schema in each of its threads.
InitThreads ==
    /\ classes \in {[c \in {ThreadClass} |-> v] : v \in BaseVariants}
    /\ declared = {}
    /\ cache = [c \in DOMAIN classes |-> None]
    /\ registry \in {[g \in Guids |-> IF g \in known THEN ExternalSchema(g)
                                      ELSE Unregistered] :
                     known \in SUBSET {"G5"}}
    /\ persisted = [g \in Guids |-> InvalidEntity]
    /\ fdArgs = NoField
    /\ fdResult = Pending
    /\ InitCommon
    /\ NoScope

NextThreads ==
    \/ Declare(ThreadClass)
    \/ \E t \in Threads : ThreadCheck(t)
    \/ \E t \in Threads : ThreadBuild(t)

SpecThreads == InitThreads /\ [][NextThreads]_vars

\* The scope: the program has declared Metadata; the documents carry the
\* older "Metadata" schemas G0 and G2 and the schema "Other", and perhaps
\* the current schema G1; the element holds any of their entities.
InitScope ==
    /\ classes = [c \in {ScopeClass} |-> MetadataClass]
    /\ declared = {ScopeClass}
    /\ registry \in {[g \in Guids |-> IF g \in {"G0", "G2", "G3"} \cup known
                                      THEN ExternalSchema(g)
                                      ELSE Unregistered] :
                     known \in SUBSET {"G1"}}
    /\ cache = [c \in DOMAIN classes |-> Lookup(classes[c].guid)]
    /\ persisted \in {[g \in Guids |-> IF g \in held THEN SampleEntity(g)
                                       ELSE InvalidEntity] :
                      held \in SUBSET (ListSchemas \cap
                                       {"G0", "G1", "G2", "G3"})}
    /\ fdArgs = NoField
    /\ fdResult = Pending
    /\ InitCommon
    /\ NoScope

NextScope ==
    \/ \E upd \in BOOLEAN : New(upd)
    \/ Enter
    \/ \E name \in Range(FieldOrder) :
         /\ scope = "entered"
         /\ nSets < MaxSets
         /\ HasField(registry[wrapped.schema], name)
         /\ \E value \in SetValues(GetField(registry[wrapped.schema], name)) :
              BodySet(name, value, FALSE)
    \/ \E name \in Range(FieldOrder) :
         /\ scope = "entered"
         /\ nSets < MaxSets
         /\ HasField(registry[wrapped.schema], name)
         /\ BodyClear(name)
    \/ \E exc \in BOOLEAN : Exit(exc)

Spec == InitScope /\ [][NextScope]_vars

\* Calls on an entity: the program is in the body of a scope on Metadata,
\* opened without migration, on an element that held an entity under the
\* schema or none; the body calls get, set and clear with any field name
\* and any value, and the host may erase the schema meanwhile.
EntityNames == Range(FieldOrder) \cup {"zzz"}

AnyValues ==
    {PyScalar("Int32", 3), PyScalar("String", "y"), PyScalar("Double", 2),
     PyList("Int32", <<3>>), PyList("String", <<"y">>), PyList(None, <<>>),
     PyDict("String", "Int32", "k" :> 3), PyDict(None, None, EmptyMap)}

InitEntity ==
    /\ classes = [c \in {ScopeClass} |-> MetadataClass]
    /\ declared = {ScopeClass}
    /\ registry = [g \in Guids |-> IF g \in {"G0", "G1", "G2", "G3"}
                                    THEN ExternalSchema(g) ELSE Unregistered]
    /\ cache = [c \in DOMAIN classes |-> Lookup(classes[c].guid)]
    /\ persisted \in {[g \in Guids |-> IF g \in held THEN SampleEntity(g)
                                       ELSE InvalidEntity] :
                      held \in SUBSET {"G1"}}
    /\ fdArgs = NoField
    /\ fdResult = Pending
    /\ InitCommon
    /\ scope = "entered"
    /\ wrapped = IF persisted[ScopeGuid].valid THEN persisted[ScopeGuid]
                 ELSE NewEntity(ScopeGuid, registry[ScopeGuid])
    /\ nScopes = 1

NextEntity ==
    \/ \E name \in EntityNames, nullSchema \in BOOLEAN :
         nSets < MaxCalls /\ BodyGet(name, nullSchema)
    \/ \E name \in EntityNames, value \in AnyValues, nullSchema \in BOOLEAN :
         nSets < MaxCalls /\ BodySet(name, value, nullSchema)
    \/ \E name \in EntityNames : nSets < MaxCalls /\ BodyClear(name)
    \/ HostErase(ScopeGuid)

SpecEntity == InitEntity /\ [][NextEntity]_vars

\* Access checks: the program is in the body of a scope on Metadata and
\* reads the access properties of the class and of the entity, while the
\* host may change what it grants.
NextAccess ==
    \/ \E kind \in AccessKinds :
         nSets < MaxCalls /\ ClassAccessGranted(kind)
    \/ \E kind \in AccessKinds :
         nSets < MaxCalls /\ EntityAccessGranted(kind)
    \/ \E kind \in AccessKinds, granted \in BOOLEAN :
         HostSetAccess(kind, granted)

SpecAccess == InitEntity /\ [][NextAccess]_vars

(***************************************************************************)
(* Properties                                                              *)
(***************************************************************************)

\* C1: leaving the scope after the body raised makes no SetEntity call and
\* leaves the element's entity under the current schema as it was.
C1_StoreOnSuccessOnly ==
    [][(scope = "entered" /\ lastOp'.op = "exit" /\ lastOp'.exc)
          => /\ <<"SetEntity", ScopeGuid>> \notin Range(calls')
             /\ persisted'[ScopeGuid] = persisted[ScopeGuid]]_vars

\* The fields of the new schema for which transfer_field_data attempts a
\* copy from the old schema: same name, and the new field's resolved type
\* equal to the old field's value type.
Attempted(old, new) ==
    {n \in Range(ListFields(new)) :
        /\ HasField(old, n)
        /\ determine_field_type(GetField(new, n)) = GetField(old, n).ValueType}

Compatible(old, new, n) ==
    /\ HasField(old, n)
    /\ GetField(old, n).ValueType = GetField(new, n).ValueType
    /\ GetField(old, n).ContainerType = GetField(new, n).ContainerType

\* C3: after a transfer, every field of the new schema that is compatible
\* with a field of the old schema holds the old entity's value.
C3_CopiesCompatible ==
    \A i \in DOMAIN transfers :
      LET t == transfers[i]
          old == registry[t.from.schema]
          new == registry[t.to.schema]
      IN  t.err = "none" =>
            \A n \in Range(ListFields(new)) :
              Compatible(old, new, n) => t.result.vals[n] = t.from.vals[n]

\* C4: a transfer raises no error and leaves unchanged every field of the
\* new schema that has no same-named old field, or one of another value
\* type, or one of another container kind.
C4_SkipsIncompatible ==
    \A i \in DOMAIN transfers :
      LET t == transfers[i]
          old == registry[t.from.schema]
          new == registry[t.to.schema]
      IN  /\ t.err = "none"
          /\ \A n \in Range(ListFields(new)) :
               ~Compatible(old, new, n) => t.result.vals[n] = t.to.vals[n]

\* C5: when the element holds a valid entity under the current schema, the
\* entity in the scope after __enter__ is that entity, unchanged by values
\* of older entities.
C5_MigrationOnlyIntoFresh ==
    (lastOp.op = "enter" /\ scope = "entered" /\ persisted[ScopeGuid].valid)
        => wrapped = persisted[ScopeGuid]

\* C6 as stated: whatever the number of accesses, a handle that is
\* returned has the class's id, and at most one build_schema call and one
\* Finish call are made for the class.
C6_AtMostOneBuild ==
    /\ \A c \in DOMAIN classes : buildCalls[c] <= 1 /\ finishCalls[c] <= 1
    /\ (lastOp.op = "schema" /\ lastOp.err = "none")
         => lastOp.ret = classes[lastOp.cls].guid

\* C6 amended: every access that returns yields the handle of the class's
\* id; a build that returns binds the class; and once the class is bound
\* no build_schema or Finish call is made for it and the binding stays.
C6_BoundOnce ==
    [][\A c \in DOMAIN classes :
        /\ (lastOp'.op = "schema" /\ lastOp'.cls = c /\ nAccess' = nAccess + 1
              /\ lastOp'.err = "none")
             => /\ lastOp'.ret = classes[c].guid
                /\ cache'[c] = classes[c].guid
        /\ (c \in declared /\ cache[c] # None)
             => /\ buildCalls'[c] = buildCalls[c]
                /\ finishCalls'[c] = finishCalls[c]
                /\ cache'[c] = cache[c]]_vars

\* C6 witness: a class bound by its one build is accessed again and the
\* bound handle is returned without a build.
C6_Witness ==
    \E c \in DOMAIN classes :
      /\ lastOp.op = "schema" /\ lastOp.cls = c /\ ~lastOp.built
      /\ lastOp.ret = classes[c].guid
      /\ buildCalls[c] = 1 /\ finishCalls[c] = 1
      /\ nAccess >= 2

\* C7: an access made while the host registry holds the class's id returns
\* that schema and runs no build.
C7_LookupBeforeBuild ==
    [][\A c \in DOMAIN classes :
        (lastOp'.op = "schema" /\ lastOp'.cls = c /\ nAccess' = nAccess + 1
           /\ Lookup(classes[c].guid) # None)
          => /\ buildCalls'[c] = buildCalls[c]
             /\ lastOp'.ret = classes[c].guid]_vars

\* The errors of build_schema's validations and add-operations.
ValidationErrors ==
    {"Invalid schema GUID", "Invalid schema name",
     "Invalid read access level", "Invalid write access level",
     "Invalid Vendor ID", "Invalid Application GUID", "Invalid field name",
     "Invalid container type", "Host: field name already in use"}

\* C8: after a build that failed a validation or an add-operation, Finish
\* was not called and the registry holds no schema with the class's id.
C8_NoPartialSchema ==
    (lastOp.op = "schema" /\ lastOp.built /\ lastOp.err \in ValidationErrors)
        => /\ <<"Finish">> \notin Range(calls)
           /\ Lookup(classes[lastOp.cls].guid) = None

\* The add-operations a build made for the field name n.
AddsOf(n) ==
    {i \in DOMAIN calls :
        /\ calls[i][1] \in {"AddSimpleField", "AddArrayField", "AddMapField"}
        /\ calls[i][2] = n}

\* C9: a build of Derived, which declares `a` again, that got through the
\* validations made exactly one add-operation for `a`, the derived one,
\* and did not fail on the repeated name.
C9_OneAddPerName ==
    (lastOp.op = "schema" /\ lastOp.cls = "Derived" /\ lastOp.built
       /\ lastOp.err \notin (ValidationErrors
                               \ {"Host: field name already in use"}))
        => /\ Cardinality(AddsOf("a")) = 1
           /\ \A i \in AddsOf("a") : calls[i][3] = "String"
           /\ lastOp.err \notin {"Host: field name already in use",
                                 "Host: schema holds a repeated field name"}

\* C10: a Map declaration without key_type fails, a Simple or Array
\* declaration with a key_type fails, both before any host call, and a
\* descriptor that was constructed has a key_type exactly when it is a Map.
C10_KeyTypeIffMap ==
    fdResult # Pending =>
      /\ calls = <<>>
      /\ (fdArgs.container_type = "Map" /\ fdArgs.key_type = None)
           => fdResult.err # "none"
      /\ (fdArgs.container_type \in {"Simple", "Array"}
            /\ fdArgs.key_type # None)
           => fdResult.err # "none"
      /\ fdResult.err = "none"
           => (fdResult.key_type # None <=> fdResult.container_type = "Map")

\* C11: a declaration whose value type resolves to the nested-entity type,
\* given as the token or as the short name "entity", without a sub-schema
\* id fails; and a descriptor that was constructed with the entity value
\* type carries a non-empty sub-schema id.
C11_EntityNeedsSubSchema ==
    fdResult # Pending =>
      /\ (resolve_type(fdArgs.value_type, ALLOWED_VALUE_TYPES) = "Entity"
            /\ Falsy(fdArgs.guid))
           => fdResult.err # "none"
      /\ (fdResult.err = "none" /\ fdResult.value_type = "Entity")
           => ~Falsy(fdResult.sub_schema_guid)

\* C12: the key type of a Map declaration resolves within the allowed key
\* set or the declaration fails: a constructed Map descriptor has a key
\* type that is a token of ALLOWED_KEY_TYPES (never Single, Double, XYZ, UV
\* or Entity), resolving that token again returns it, and a key type whose
\* resolution is the unsupported-type error fails the declaration.
C12_KeyResolutionClosed ==
    (fdResult # Pending /\ fdArgs.container_type = "Map"
       /\ fdArgs.key_type # None) =>
      /\ fdResult.err = "none" =>
           /\ fdResult.key_type \in Values(ALLOWED_KEY_TYPES)
           /\ fdResult.key_type
                \notin {"Single", "Double", "XYZ", "UV", "Entity"}
           /\ resolve_type(fdResult.key_type, ALLOWED_KEY_TYPES)
                = fdResult.key_type
      /\ resolve_type(fdArgs.key_type, ALLOWED_KEY_TYPES) = "ValueError"
           => fdResult.err # "none"

\* The errors raised for a name that is not a field of the schema: by get
\* and set, and by the host for clear.
UnknownFieldErrors ==
    {NoFieldError, "Host: no field of this name in the schema"}

\* C13: a get, set or clear on a valid entity with a name that is not a
\* field of its schema fails with the error of an unknown field and leaves
\* the in-memory entity, the element's entities and the registry unchanged.
C13_UnknownField ==
    [][(nSets' = nSets + 1 /\ IsValid(wrapped)
          /\ ~HasField(registry[wrapped.schema], io'.field))
         => /\ lastOp'.err \in UnknownFieldErrors
            /\ wrapped' = wrapped
            /\ persisted' = persisted
            /\ registry' = registry]_vars

\* C13 witness: after an earlier call on the entity, a set with a name the
\* schema does not have has failed.
C13_Witness ==
    /\ lastOp.op = "set"
    /\ nSets = 2
    /\ IsValid(wrapped)
    /\ ~HasField(registry[wrapped.schema], io.field)
    /\ lastOp.err = NoFieldError

\* C14: a set or a clear on the entity of the scope leaves every entity on
\* the element as it is, and the element's entity under the current schema
\* changes only in the step that leaves the scope, by its SetEntity call.
C14_DetachedCopy ==
    [][/\ (nSets' = nSets + 1) => persisted' = persisted
       /\ persisted'[ScopeGuid] # persisted[ScopeGuid]
            => /\ lastOp'.op = "exit"
               /\ <<"SetEntity", ScopeGuid>> \in Range(calls')]_vars

\* C14 witness: the entity retrieved from the element was changed by a set
\* and the element still holds the entity as it was retrieved.
C14_Witness ==
    /\ lastOp.op = "set"
    /\ lastOp.err = "none"
    /\ persisted[ScopeGuid].valid
    /\ wrapped # persisted[ScopeGuid]
    /\ persisted[ScopeGuid] = SampleEntity(ScopeGuid)

\* The schemas whose entity the last __enter__ asked the element for.
Visited ==
    {calls[i][2] : i \in {j \in DOMAIN calls : calls[j][1] = "GetEntity"}}

\* C15: the schemas a migration goes through are schemas of the registry
\* with the name of the current schema and another id, and all of them
\* when the migration ends without error; never the current schema and
\* never a schema of another name.
C15_SimilarByNameAndId ==
    (lastOp.op = "enter" /\ update) =>
      LET expected == {g \in Guids : /\ registry[g].registered
                                     /\ registry[g].name
                                          = registry[ScopeGuid].name
                                     /\ g # ScopeGuid}
      IN  /\ Visited \subseteq expected
          /\ lastOp.err = "none" => Visited = expected
          /\ ScopeGuid \notin Visited
          /\ \A g \in Visited : registry[g].name # "Other"

\* C15 witness: a migration went through the two older schemas named
\* "Metadata" while the registry also held the schema "Other" and the
\* current schema.
C15_Witness ==
    /\ lastOp.op = "enter" /\ update /\ lastOp.err = "none"
    /\ Visited = {"G0", "G2"}
    /\ registry["G3"].registered /\ registry["G3"].name = "Other"
    /\ registry[ScopeGuid].registered

\* C16: when both threads have read the handle of the class and one of
\* them obtained it, one build at most was made for the class, the other
\* thread obtained a handle too, and it is the same handle.
C16_OneBuildTwoThreads ==
    ((\A t \in Threads : threads[t].pc = "done")
       /\ (\E t \in Threads : threads[t].err = "none")) =>
      /\ buildCalls[ThreadClass] <= 1
      /\ \A t \in Threads : threads[t].err = "none"
      /\ \A t, u \in Threads : threads[t].ret = threads[u].ret

\* The values of a field's type: a scalar of the value type, a list of
\* it or the empty list for an Array, a dict of the key and value types or
\* the empty dict for a Map.
Representable(field, value) ==
    CASE field.ContainerType = "Array" ->
           /\ value.kind = "list"
           /\ value.val = <<>> \/ value.value_type = field.ValueType
      [] field.ContainerType = "Map" ->
           /\ value.kind = "dict"
           /\ \/ DOMAIN value.val = {}
              \/ /\ value.key_type = field.KeyType
                 /\ value.value_type = field.ValueType
      [] OTHER ->
           /\ value.kind = "scalar"
           /\ value.value_type = field.ValueType

\* C17: a set of a field of a valid entity with a value of the field's
\* type, the empty array and the empty map included, returns without
\* error, and a get of the field that follows returns that value.
C17_RoundTrip ==
    [][(lastOp'.op = "set" /\ nSets' = nSets + 1 /\ IsValid(wrapped)
          /\ HasField(registry[wrapped.schema], io'.field)
          /\ Representable(GetField(registry[wrapped.schema], io'.field),
                           io'.value))
         => /\ lastOp'.err = "none"
            /\ Entity_get(wrapped', io'.field, FALSE)
                 = [err |-> "none", value |-> io'.value.val]]_vars

\* The errors raised because the entity has no live schema: by get and set
\* when the entity reports no schema, by the host otherwise.
StaleEntityErrors == {NoSchemaError, "Host: this Entity is invalid"}

C19_MigrationDoesNotPersist ==
    [][lastOp'.op = "enter" =>
         /\ \A i \in DOMAIN calls' : calls'[i][1] # "SetEntity"
         /\ persisted'[ScopeGuid] = persisted[ScopeGuid]
         /\ \A g \in Guids :
              persisted'[g] # persisted[g] =>
                /\ persisted'[g] = InvalidEntity
                /\ g # ScopeGuid
                /\ <<"DeleteEntity", g>> \in Range(calls')]_vars

\* C19 witness: a migration copied a value of an old entity into the
\* entity of the scope and deleted the old entity, and the element holds
\* no entity under the current schema yet.
C19_Witness ==
    /\ lastOp.op = "enter" /\ lastOp.err = "none"
    /\ \E i \in DOMAIN transfers : transfers[i].result # transfers[i].to
    /\ \E j \in DOMAIN calls : calls[j][1] = "DeleteEntity"
    /\ ~persisted[ScopeGuid].valid
    /\ wrapped # NewEntity(ScopeGuid, registry[ScopeGuid])

\* C20: every read of read_access_granted or write_access_granted, on the
\* class or on the entity, makes one more query to the host and returns
\* what the host grants at that time.
C20_AccessNotCached ==
    [][\A kind \in AccessKinds :
         (lastOp'.op = kind \o "_access_granted" /\ nSets' = nSets + 1
            /\ lastOp'.err = "none")
           => /\ Len(access'.log) = Len(access.log) + 1
              /\ access'.log[Len(access'.log)].kind = kind
              /\ access'.log[Len(access'.log)].ret = AccessGranted(kind)]_vars

\* C20 witness: two reads of write_access_granted on the class, between
\* which the host stopped granting write access: the first returned TRUE,
\* the second FALSE.
C20_Witness ==
    /\ Len(access.log) = 2
    /\ \A i \in 1..2 : access.log[i].kind = "write" /\ access.log[i].on = "class"
    /\ access.log[1].ret = TRUE
    /\ access.log[2].ret = FALSE
    /\ lastOp.op = "write_access_granted"

\* The field names of the add-operations of the last build, in the order
\* in which they were made.
AddedNames ==
    LET adds == SelectSeq(calls, LAMBDA c : c[1] \in {"AddSimpleField",
                                                      "AddArrayField",
                                                      "AddMapField"})
    IN  [i \in DOMAIN adds |-> adds[i][2]]

\* The field names of class cls in the order its body declares them (the
\* class bodies declare their fields by name, a before h, a before n).
DeclarationOrder(cls) ==
    SelectSeq(FieldOrder,
              LAMBDA n : \E fd \in classes[cls].fields : fd.name = n)

\* The place of a field name in a build of cls that goes base-first: the
\* fields of the base classes in declaration order, then the fields the
\* class itself adds to them.
BaseFirstOrder(cls) ==
    LET inherited == IF classes[cls].bases = <<>> THEN <<>>
                     ELSE DeclarationOrder(classes[cls].bases[1])
        own == SelectSeq(DeclarationOrder(cls),
                         LAMBDA n : n \notin Range(inherited))
    IN  inherited \o own

\* C21: in a build, the add-operations come in declaration order with the
\* fields of the base classes before those of the derived class: of two
\* add-operations for different names, the earlier one is for the name
\* that comes first in that order.
C21_BaseFirstDeclarationOrder ==
    (lastOp.op = "schema" /\ lastOp.built) =>
      LET want == BaseFirstOrder(lastOp.cls)
          pos(n) == CHOOSE k \in DOMAIN want : want[k] = n
      IN  \A i, j \in DOMAIN AddedNames :
            (i < j /\ AddedNames[i] # AddedNames[j]
               /\ AddedNames[i] \in Range(want)
               /\ AddedNames[j] \in Range(want))
              => pos(AddedNames[i]) < pos(AddedNames[j])

\* The host calls that change an element.
ElementMutations == {"SetEntity", "DeleteEntity"}

\* C22: among the host calls of an operation, every SetEntity and every
\* DeleteEntity comes directly after the start of a transaction and
\* directly before its commit, and every transaction that is started holds
\* one such call and is committed before the next call.
C22_OneTransactionPerMutation ==
    \A i \in DOMAIN calls :
      /\ calls[i][1] \in ElementMutations =>
           /\ i > 1 /\ calls[i - 1][1] = "Transaction.Start"
           /\ i < Len(calls) /\ calls[i + 1][1] = "Transaction.Commit"
      /\ calls[i][1] = "Transaction.Start" =>
           /\ i + 2 <= Len(calls)
           /\ calls[i + 1][1] \in ElementMutations
           /\ calls[i + 2][1] = "Transaction.Commit"

\* C22 witness: a migration that asked the element for the entities of
\* two older schemas deleted one of them, in a transaction of its own.
C22_Witness ==
    /\ lastOp.op = "enter"
    /\ Cardinality(Visited) = 2
    /\ \E i \in DOMAIN calls :
         /\ calls[i][1] = "DeleteEntity"
         /\ calls[i - 1][1] = "Transaction.Start"
         /\ calls[i + 1][1] = "Transaction.Commit"

\* The descriptors a build of cls can meet: those of the class and of its
\* bases.
DescriptorsOf(cls) ==
    UNION {classes[c].fields : c \in Range(mro(cls))}

\* C23: for every field a build has added and documented, SetSpec is
\* called on its builder exactly when the host says the field needs
\* units, with the declared spec or, none being declared, the number spec;
\* and SetSubSchemaGUID is called exactly when the host says the field
\* needs a sub-schema id, with the declared id.
C23_UnitSpecProtocol ==
    (lastOp.op = "schema" /\ lastOp.built) =>
      \A i \in DOMAIN calls :
        (/\ calls[i][1] \in {"AddSimpleField", "AddArrayField", "AddMapField"}
         /\ i < Len(calls)
         /\ calls[i + 1][1] = "Field.SetDocumentation") =>
          LET n == calls[i][2]
              vt == calls[i][Len(calls[i])]
              fds == {fd \in DescriptorsOf(lastOp.cls) :
                        fd.name = n /\ fd.value_type = vt}
              hasSpec == /\ i + 2 <= Len(calls)
                         /\ calls[i + 2][1] = "SetSpec"
                         /\ calls[i + 2][2] = n
              k == IF hasSpec THEN i + 3 ELSE i + 2
              hasSub == /\ k <= Len(calls)
                        /\ calls[k][1] = "SetSubSchemaGUID"
                        /\ calls[k][2] = n
          IN  /\ hasSpec <=> NeedsUnits(vt)
              /\ hasSpec =>
                   \E fd \in fds :
                     calls[i + 2][3] = IF fd.spec_type_id = None THEN "Number"
                                       ELSE fd.spec_type_id
              /\ hasSub <=> NeedsSubSchemaGUID(vt)
              /\ hasSub => \E fd \in fds : calls[k][3] = fd.sub_schema_guid

\* C23 witness: a build of Derived has added the nested-entity field n
\* with its sub-schema id and no unit spec, and the field h of Base with
\* the number spec.
C23_Witness ==
    /\ lastOp.op = "schema" /\ lastOp.built /\ lastOp.cls = "Derived"
    /\ <<"SetSubSchemaGUID", "n", "G3">> \in Range(calls)
    /\ <<"SetSpec", "h", "Number">> \in Range(calls)
    /\ \A c \in Range(calls) : ~(c[1] = "SetSpec" /\ c[2] \in {"a", "n"})

\* C24: once the scope has been left, by __exit__ or by an error of
\* __enter__, for every old entity the migration of the scope copied from
\* and deleted, the element holds an entity under the current schema, and
\* it holds the values copied from the old entity when nothing has
\* written those fields since.
C24_NoDataLoss ==
    (scope = "none" /\ lastOp.op \in {"enter", "exit"}) =>
      \A i \in DOMAIN transfers :
        LET t == transfers[i]
        IN  (t.err = "none" /\ ~persisted[t.from.schema].valid) =>
              /\ persisted[ScopeGuid].valid
              /\ (nSets = 0 /\ i = Len(transfers)) =>
                   \A n \in Attempted(registry[t.from.schema],
                                      registry[ScopeGuid]) :
                     persisted[ScopeGuid].vals[n] = t.from.vals[n]

\* C25: when a scope opened with migration has been entered and left
\* without an error, the next scope on the element, whose body makes no
\* field call, is entered and left too, its __enter__ copies from no
\* entity, and it leaves every entity of the element, the one under the
\* current schema included, as the first scope left it.
C25_MigrationIdempotent ==
    \A i \in DOMAIN ended :
      (i > 1 /\ ended[i - 1].update /\ ended[i - 1].entered
             /\ ~ended[i - 1].exc /\ ended[i].sets = 0) =>
        /\ ended[i].entered
        /\ ended[i].copied = 0
        /\ ended[i].element = ended[i - 1].element

\* C25 witness: a first scope has migrated an old entity, deleted it and
\* been left without an error, and a second scope with migration has been
\* entered and left without a field call.
C25_Witness ==
    /\ Len(ended) = 2 /\ scope = "none"
    /\ ended[1].update /\ ended[1].entered /\ ~ended[1].exc
    /\ ended[1].copied > 0
    /\ \E g \in Guids \ {ScopeGuid} :
         persisted[g] = InvalidEntity /\ ended[1].element[g] = InvalidEntity
    /\ ended[1].element[ScopeGuid].valid
    /\ ended[2].update /\ ended[2].entered /\ ~ended[2].exc
    /\ ended[2].sets = 0
    /\ persisted[ScopeGuid] = ended[1].element[ScopeGuid]

====
